---------------------------- MODULE Spec2Model ----------------------------
(***************************************************************************)
(* A model of the contact book of src/contacts_book_classes.py: the        *)
(* validated fields, the Record, the AddressBook store with its pickle     *)
(* snapshot, the command table with command_parser, the error_handler      *)
(* decorator and the main loop.                                            *)
(*                                                                         *)
(* Python strings are TLA+ strings; a character is a string of length 1.   *)
(* The module is kept in ASCII: the character U+00BD (VULGAR FRACTION ONE  *)
(* HALF), for which str.isnumeric() is true and str.isdigit() is false, is *)
(* written "%" (see VulgarHalf); no input of the model uses "%" otherwise. *)
(***************************************************************************)
EXTENDS Integers, Sequences, FiniteSets, TLC

VARIABLES
    pc,        \* position of main(): "start", "prompt", "dup" (in add_phone's input()),
               \* "confirm", "done", "crashed"; "call" where no session runs (SpecCalls)
    data,      \* ADDRESSBOOK.data: the dict, as the sequence of its items in insertion order
    file,      \* AddressBook.txt: [kind |-> "missing"], [kind |-> "corrupt"] or a pickled blob
    pending,   \* add_phone blocked in its input() loop: the args it was called with
    save_file, \* the latest answer to "Do you want to save changes?" since the last line read
    call       \* the latest call of a function with its input and its outcome (SpecCalls)

vars == <<pc, data, file, pending, save_file, call>>

-----------------------------------------------------------------------------
(* Characters and the str methods the program uses *)

Digits == "0123456789"
UpperCase == "ABCDEFGHIJKLMNOPQRSTUVWXYZ"
LowerCase == "abcdefghijklmnopqrstuvwxyz"
VulgarHalf == "%"

At(s, i) == SubSeq(s, i, i)

Chars(alphabet) == {At(alphabet, i) : i \in 1..Len(alphabet)}

IndexIn(c, alphabet) == CHOOSE i \in 1..Len(alphabet) : At(alphabet, i) = c

DigitChars == Chars(Digits)

UpperChars == Chars(UpperCase)

LowerChars == Chars(LowerCase)

\* c is a decimal digit 0-9
IsDecimal(c) == c \in DigitChars

\* the characters c with c.isnumeric(): the decimal digits and the other
\* numeric characters of Unicode, of which the model has U+00BD
IsNumericChar(c) == IsDecimal(c) \/ c = VulgarHalf

\* str.isnumeric(): at least one character and every character numeric
isnumeric(s) == Len(s) > 0 /\ \A i \in 1..Len(s) : IsNumericChar(At(s, i))

\* str.isdigit() on the model's alphabet: decimal digits only
isdigit(s) == Len(s) > 0 /\ \A i \in 1..Len(s) : IsDecimal(At(s, i))

IsLetter(c) == c \in UpperChars \/ c \in LowerChars

\* \w of the re module on the model's alphabet
IsWordChar(c) == IsLetter(c) \/ IsNumericChar(c) \/ c = "_"

\* the lower-case letter of each upper-case letter
LowerOf == [c \in UpperChars |-> At(LowerCase, IndexIn(c, UpperCase))]

LowerChar(c) == IF c \in UpperChars THEN LowerOf[c] ELSE c

RECURSIVE lower(_)
lower(s) == IF s = "" THEN "" ELSE LowerChar(Head(s)) \o lower(Tail(s))

startswith(s, prefix) == Len(prefix) <= Len(s) /\ SubSeq(s, 1, Len(prefix)) = prefix

DropFirst(s, n) == SubSeq(s, n + 1, Len(s))

\* sub in s
Contains(s, sub) == \E i \in 1..(Len(s) - Len(sub) + 1) : SubSeq(s, i, i + Len(sub) - 1) = sub

\* str.replace(old, ""): every non-overlapping occurrence of old, left to right
RECURSIVE removeAll(_, _)
removeAll(s, old) ==
    IF s = "" THEN ""
    ELSE IF startswith(s, old) THEN removeAll(DropFirst(s, Len(old)), old)
    ELSE Head(s) \o removeAll(Tail(s), old)

RECURSIVE lstrip(_)
lstrip(s) == IF s # "" /\ Head(s) = " " THEN lstrip(Tail(s)) ELSE s

RECURSIVE rstrip(_)
rstrip(s) == IF s # "" /\ At(s, Len(s)) = " " THEN rstrip(SubSeq(s, 1, Len(s) - 1)) ELSE s

\* str.strip()
strip(s) == rstrip(lstrip(s))

\* str.split(sep) for a one-character sep: never empty, "" gives <<"">>
RECURSIVE split(_, _)
split(s, sep) ==
    IF ~Contains(s, sep) THEN <<s>>
    ELSE LET i == CHOOSE k \in 1..Len(s) : At(s, k) = sep /\ \A j \in 1..(k - 1) : At(s, j) # sep
         IN <<SubSeq(s, 1, i - 1)>> \o split(DropFirst(s, i), sep)

\* sep.join(parts)
RECURSIVE join(_, _)
join(sep, parts) ==
    IF parts = <<>> THEN ""
    ELSE IF Len(parts) = 1 THEN parts[1]
    ELSE parts[1] \o sep \o join(sep, Tail(parts))

-----------------------------------------------------------------------------
(* Fields: a constructor returns the value it holds or the ValueError it raised *)

PhoneLen == 12

Valid(v) == [ok |-> TRUE, value |-> v, error |-> ""]

Invalid(message) == [ok |-> FALSE, value |-> "", error |-> message]

\* Name(value): no validation
Name(value) == Valid(value)

\* Phone(value): the checks of the setter, in its order
Phone(value) ==
    IF Len(value) # PhoneLen THEN Invalid("Phone must contains 12 symbols.")
    ELSE IF ~startswith(value, "380") THEN Invalid("Phone must starts from '380'.")
    ELSE IF ~isnumeric(value) THEN Invalid("Phone number must include digits only.")
    ELSE Valid(value)

\* datetime.now().date(), the same throughout a session
Today == [year |-> 2026, month |-> 11, day |-> 3]

DigitValue == [c \in DigitChars |-> IndexIn(c, Digits) - 1]

DigitVal(c) == DigitValue[c]

RECURSIVE ToInt(_)
ToInt(s) == IF s = "" THEN 0 ELSE ToInt(SubSeq(s, 1, Len(s) - 1)) * 10 + DigitVal(At(s, Len(s)))

IsLeap(y) == (y % 4 = 0 /\ y % 100 # 0) \/ y % 400 = 0

DaysInMonth(y, m) ==
    IF m = 2 THEN (IF IsLeap(y) THEN 29 ELSE 28)
    ELSE IF m \in {4, 6, 9, 11} THEN 30 ELSE 31

IsDate(y, m, d) == y >= 1 /\ m \in 1..12 /\ d >= 1 /\ d <= DaysInMonth(y, m)

\* datetime.strptime(s, "%d-%m-%Y") succeeds: one or two digits of a day, one or
\* two of a month, four of a year, and the three make a date
CanParseDate(s) ==
    LET p == split(s, "-") IN
    /\ Len(p) = 3
    /\ Len(p[1]) \in {1, 2} /\ isdigit(p[1])
    /\ Len(p[2]) \in {1, 2} /\ isdigit(p[2])
    /\ Len(p[3]) = 4 /\ isdigit(p[3])
    /\ IsDate(ToInt(p[3]), ToInt(p[2]), ToInt(p[1]))

ParseDate(s) ==
    LET p == split(s, "-") IN [year |-> ToInt(p[3]), month |-> ToInt(p[2]), day |-> ToInt(p[1])]

DateAfter(a, b) ==
    \/ a.year > b.year
    \/ a.year = b.year /\ a.month > b.month
    \/ a.year = b.year /\ a.month = b.month /\ a.day > b.day

\* Birthday(value): the setter
Birthday(value) ==
    IF ~CanParseDate(value) THEN Invalid("Birthday must be in a format 'DD-MM-YYYY'")
    ELSE IF DateAfter(ParseDate(value), Today) THEN Invalid("Birthday can't be bigger than current date.")
    ELSE [ok |-> TRUE, value |-> ParseDate(value), error |-> ""]

RECURSIVE NumStr(_)
NumStr(n) == IF n < 10 THEN At(Digits, n + 1) ELSE NumStr(n \div 10) \o At(Digits, (n % 10) + 1)

Pad2(n) == IF n < 10 THEN "0" \o NumStr(n) ELSE NumStr(n)

\* Birthday.__str__: value.strftime("%d-%m-%Y")
BirthdayStr(d) == Pad2(d.day) \o "-" \o Pad2(d.month) \o "-" \o NumStr(d.year)

IsLocalChar(c) == IsWordChar(c) \/ c = "+" \/ c = "."

\* re.findall(r"\b[A-Za-z][\w+.]+@\w+[.][a-z]{2,3}", s) is not empty: a letter at a
\* word boundary at i, local characters up to j, "@", word characters up to k, ".",
\* and two lower-case letters
EmailMatches(s) ==
    \E i \in 1..Len(s) : \E j \in (i + 1)..Len(s) : \E k \in (j + 2)..Len(s) :
        /\ k + 3 <= Len(s)
        /\ IsLetter(At(s, i))
        /\ (i = 1 \/ ~IsWordChar(At(s, i - 1)))
        /\ \A x \in (i + 1)..j : IsLocalChar(At(s, x))
        /\ At(s, j + 1) = "@"
        /\ \A x \in (j + 2)..k : IsWordChar(At(s, x))
        /\ At(s, k + 1) = "."
        /\ At(s, k + 2) \in LowerChars /\ At(s, k + 3) \in LowerChars

\* Email(value): the setter
Email(value) ==
    IF ~EmailMatches(value) THEN Invalid("Wrong format. Example: \"mymail@gmail.com\"")
    ELSE Valid(value)

-----------------------------------------------------------------------------
(* Record: name, phones in insertion order, optional birthday and email.   *)
(* An optional field is <<>> (None) or <<v>>.                              *)

\* Record(name, phone): __init__ with a phone
Record(name, phone) == [name |-> name, phones |-> <<phone>>, birthday |-> <<>>, email |-> <<>>]

\* Record.add_phone
Record_add_phone(rec, phone) == [rec EXCEPT !.phones = Append(@, phone)]

\* the phones after Record.change(old_phone, new_phone): only the first phone is
\* compared; on a match it is removed and the new phone is appended
Record_change(rec, old_phone, new_phone) ==
    IF rec.phones # <<>> /\ rec.phones[1] = old_phone
    THEN [rec EXCEPT !.phones = Append(Tail(@), new_phone)]
    ELSE rec

\* what Record.change(old_phone, new_phone) returns: the return statements are
\* in the body of the loop over the phones, so the first phone decides which
\* message comes back and a loop with nothing to visit falls off the end (None)
Record_change_return(rec, old_phone, new_phone) ==
    IF rec.phones = <<>> THEN [type |-> "NoneType", val |-> ""]
    ELSE IF rec.phones[1] = old_phone
    THEN [type |-> "str",
          val |-> "Phone " \o old_phone \o " was successfully changed to " \o new_phone]
    ELSE [type |-> "str",
          val |-> "Phone number '" \o old_phone \o "' was not found in the record"]

RECURSIVE RemoveFirst(_, _)
RemoveFirst(seq, x) ==
    IF seq = <<>> THEN <<>>
    ELSE IF Head(seq) = x THEN Tail(seq)
    ELSE <<Head(seq)>> \o RemoveFirst(Tail(seq), x)

\* Record.remove_phone, after its Phone(phone) succeeded: the first equal phone goes
Record_remove_phone(rec, phone) == [rec EXCEPT !.phones = RemoveFirst(@, phone)]

\* Record.add_birthday
Record_add_birthday(rec, birthday) == [rec EXCEPT !.birthday = <<birthday>>]

\* Record.add_email
Record_add_email(rec, email) == [rec EXCEPT !.email = <<email>>]

-----------------------------------------------------------------------------
(* AddressBook: a UserDict; book is the sequence of its items [key, rec] *)

Keys(book) == {book[i].key : i \in 1..Len(book)}

KeyIndex(book, key) == CHOOSE i \in 1..Len(book) : book[i].key = key

\* ADDRESSBOOK.get(key) when key is present; the handlers test key \in Keys first
GetRecord(book, key) == book[KeyIndex(book, key)].rec

\* self.data[key] = rec: a present key keeps its place, a new key goes last
SetItem(book, key, rec) ==
    IF key \in Keys(book)
    THEN [book EXCEPT ![KeyIndex(book, key)] = [key |-> key, rec |-> rec]]
    ELSE Append(book, [key |-> key, rec |-> rec])

\* a method of a record reached through the dict: the record changes in place
UpdateRecord(book, key, rec) == [book EXCEPT ![KeyIndex(book, key)].rec = rec]

\* AddressBook.add_record: self.data[record.name.value] = record
add_record(book, record) == SetItem(book, record.name, record)

\* self.data.pop(key, None)
PopKey(book, key) == SelectSeq(book, LAMBDA item : item.key # key)

\* AddressBook.remove_record: self.data.pop(record.name.value, None)
remove_record(book, record) == PopKey(book, record.name)

\* AddressBook.change_record: nothing when the name is unknown
change_record(book, username, old_n, new_n) ==
    IF username \in Keys(book)
    THEN UpdateRecord(book, username, Record_change(GetRecord(book, username), old_n, new_n))
    ELSE book

\* str(field) of an optional field: "None" when it is not set
OptStr(opt) == IF opt = <<>> THEN "None" ELSE opt[1]

BirthdayOptStr(opt) == IF opt = <<>> THEN "None" ELSE BirthdayStr(opt[1])

\* the line search_in_file adds for a record
SearchLine(rec) ==
    "Name: " \o rec.name \o " Birthday: " \o BirthdayOptStr(rec.birthday)
        \o " Phone: " \o join(",", rec.phones) \o "\n"

\* the inner loop of search_in_file: one line for every phone that holds the text
RECURSIVE PhoneLines(_, _, _)
PhoneLines(rec, phones, text) ==
    IF phones = <<>> THEN ""
    ELSE (IF Contains(Head(phones), text) THEN SearchLine(rec) ELSE "")
            \o PhoneLines(rec, Tail(phones), text)

\* the body of the outer loop of search_in_file for one record
RecordLines(rec, text) ==
    IF Contains(lower(rec.name), text) THEN SearchLine(rec)
    ELSE PhoneLines(rec, rec.phones, text)

\* AddressBook.search_in_file(data)
RECURSIVE search_in_file(_, _)
search_in_file(book, text) ==
    IF book = <<>> THEN ""
    ELSE RecordLines(Head(book).rec, lower(text)) \o search_in_file(Tail(book), text)

\* AddressBook.show_one_record(name), for a name of the book
show_one_record(book, name) ==
    LET rec == GetRecord(book, name) IN
    "Name: " \o name \o "; Birthday: " \o BirthdayOptStr(rec.birthday)
        \o "; Phone: " \o join(", ", rec.phones) \o "; Email: " \o OptStr(rec.email)

ShowAllLine(rec) ==
    "Name: " \o rec.name \o " Birthday: " \o BirthdayOptStr(rec.birthday)
        \o "; Phone: " \o join(", ", rec.phones) \o " Email: " \o OptStr(rec.email)

\* AddressBook.show_all_records
show_all_records(book) == join("\n", [i \in 1..Len(book) |-> ShowAllLine(book[i].rec)])

IteratorLine(rec) ==
    rec.name \o " (B-day: " \o BirthdayOptStr(rec.birthday) \o "): " \o join(", ", rec.phones) \o "\n"

\* AddressBook.iterator(n): the lines of the first min(n, len) records, none for n <= 0
iterator(book, n) ==
    LET m == IF n > Len(book) THEN Len(book) ELSE IF n < 0 THEN 0 ELSE n
    IN join("", [i \in 1..m |-> IteratorLine(book[i].rec)])

\* days from 01-01-0001 to the date, as date.toordinal()
DaysBeforeYear(y) == (y - 1) * 365 + ((y - 1) \div 4) - ((y - 1) \div 100) + ((y - 1) \div 400)

RECURSIVE DaysBeforeMonth(_, _)
DaysBeforeMonth(y, m) == IF m = 1 THEN 0 ELSE DaysBeforeMonth(y, m - 1) + DaysInMonth(y, m - 1)

Ordinal(d) == DaysBeforeYear(d.year) + DaysBeforeMonth(d.year, d.month) + d.day

-----------------------------------------------------------------------------
(* The handlers. A call ends by returning a value or by raising: exc is    *)
(* "none" or the exception's class, args the exception's args, type the    *)
(* type of the value returned, book the store the call leaves.             *)

Return(val, book) == [exc |-> "none", args |-> <<>>, type |-> "str", val |-> val, book |-> book]

Raise(exc, args, book) == [exc |-> exc, args |-> args, type |-> "", val |-> "", book |-> book]

\* args[n] of a tuple that is too short
IndexError(book) == Raise("IndexError", <<"tuple index out of range">>, book)

\* the wrapper of error_handler around the outcome of func(*args); a ValueError
\* raised with no args makes exception.args[0] raise IndexError in the wrapper
error_handler(outcome) ==
    CASE outcome.exc = "IndexError" ->
            Return("You didn't provide contact name or phone number", outcome.book)
      [] outcome.exc = "ValueError" ->
            IF outcome.args = <<>> THEN IndexError(outcome.book)
            ELSE Return(outcome.args[1], outcome.book)
      [] outcome.exc = "KeyError" -> Return("User is not in contact list", outcome.book)
      [] outcome.exc = "TypeError" -> Return("You didn't provide enough parameters", outcome.book)
      [] OTHER -> outcome

\* add_phone reaches its input() loop: both fields were built and the name is known
add_phone_prompts(book, args) ==
    Len(args) >= 2 /\ Phone(args[2]).ok /\ args[1] \in Keys(book)

\* AfterAnswer with the Name of the record found renamed by answer "2", as if
\* name were the record's own Name object
AfterAnswer_renamesRecord(book, name, answer) ==
    CASE answer = "2" ->
            [name |-> name \o "(1)",
             book |-> UpdateRecord(book, name,
                                   [GetRecord(book, name) EXCEPT !.name = name \o "(1)"])]
      [] answer = "1" -> [name |-> name, book |-> remove_record(book, GetRecord(book, name))]
      [] OTHER -> [name |-> name, book |-> book]

\* the store and the name after the answer to the prompt of add_phone:
\* "2" renames, "1" removes the record found under the name, "3" keeps both
AfterAnswer(book, name, answer) ==
    CASE answer = "2" -> [name |-> name \o "(1)", book |-> book]
      [] answer = "1" -> [name |-> name, book |-> remove_record(book, GetRecord(book, name))]
      [] OTHER -> [name |-> name, book |-> book]

\* add_phone(*args), answer being the answer "1", "2" or "3" given when it prompts
add_phone_body(book, args, answer) ==
    IF Len(args) < 2 THEN IndexError(book)
    ELSE IF ~Phone(args[2]).ok THEN Raise("ValueError", <<Phone(args[2]).error>>, book)
    ELSE LET phone == Phone(args[2]).value
             a == IF args[1] \in Keys(book) THEN AfterAnswer(book, args[1], answer)
                  ELSE [name |-> args[1], book |-> book]
         IN IF ~isnumeric(phone) THEN Raise("ValueError", <<>>, a.book)
            ELSE Return("You just added contact \"" \o a.name \o "\" with phone \"" \o phone
                            \o "\" to your list of contacts",
                        IF a.name \in Keys(a.book)
                        THEN UpdateRecord(a.book, a.name,
                                          Record_add_phone(GetRecord(a.book, a.name), phone))
                        ELSE add_record(a.book, Record(a.name, phone)))

add_phone(book, args, answer) == error_handler(add_phone_body(book, args, answer))

hello(book, args) == error_handler(Return("How can I help you?", book))

change_body(book, args) ==
    IF Len(args) < 2 THEN IndexError(book)
    ELSE IF ~Phone(args[2]).ok THEN Raise("ValueError", <<Phone(args[2]).error>>, book)
    ELSE IF Len(args) < 3 THEN IndexError(book)
    ELSE IF ~Phone(args[3]).ok THEN Raise("ValueError", <<Phone(args[3]).error>>, book)
    ELSE IF ~isnumeric(args[3]) THEN Raise("ValueError", <<>>, book)
    ELSE Return("You just changed number for contact '" \o args[1] \o "'. New number is '"
                    \o args[3] \o "'",
                change_record(book, args[1], args[2], args[3]))

change(book, args) == error_handler(change_body(book, args))

phone_body(book, args) ==
    IF Len(args) < 1 THEN IndexError(book)
    ELSE IF args[1] \notin Keys(book) THEN Raise("KeyError", <<args[1]>>, book)
    ELSE Return(show_one_record(book, args[1]), book)

phone(book, args) == error_handler(phone_body(book, args))

\* the text of the help, abridged to its first line
HELP_INSTRUCTIONS == "This contact bot save your contacts "

helper(book, args) == error_handler(Return(HELP_INSTRUCTIONS, book))

delete_contact_body(book, args) ==
    IF Len(args) < 1 THEN IndexError(book)
    ELSE IF args[1] # ""
         THEN Return(args[1] \o " was deleted from your contact list",
                     remove_record(book, [name |-> args[1], phones |-> <<>>,
                                          birthday |-> <<>>, email |-> <<>>]))
    ELSE Raise("IndexError", <<>>, book)

delete_contact(book, args) == error_handler(delete_contact_body(book, args))

add_email_body(book, args) ==
    IF Len(args) < 2 THEN IndexError(book)
    ELSE IF ~Email(args[2]).ok THEN Raise("ValueError", <<Email(args[2]).error>>, book)
    ELSE IF args[1] \in Keys(book)
         THEN Return("Email for " \o args[1] \o " was added",
                     UpdateRecord(book, args[1],
                                  Record_add_email(GetRecord(book, args[1]), args[2])))
    ELSE Return(args[1] \o " is not in your contact list", book)

add_email(book, args) == error_handler(add_email_body(book, args))

add_birthday_body(book, args) ==
    IF Len(args) < 2 THEN IndexError(book)
    ELSE IF ~Birthday(args[2]).ok THEN Raise("ValueError", <<Birthday(args[2]).error>>, book)
    ELSE IF args[1] \in Keys(book)
         THEN Return("The birthday for " \o args[1] \o " was added",
                     UpdateRecord(book, args[1],
                                  Record_add_birthday(GetRecord(book, args[1]),
                                                      Birthday(args[2]).value)))
    ELSE Return(args[1] \o " is not in your contact list", book)

add_birthday(book, args) == error_handler(add_birthday_body(book, args))

\* Record.days_to_birthday for a record with a birthday: date.replace raises
\* ValueError when the 29th of February is moved to a year that is not leap
Record_days_to_birthday(rec, book) ==
    LET bd == rec.birthday[1]
        cur_year == Today.year
        this_year_bd == [bd EXCEPT !.year = cur_year]
        next_year_bd == [bd EXCEPT !.year = cur_year + 1]
        message(delta) == rec.name \o "'s birthday will be in " \o NumStr(delta) \o " days"
    IN IF ~IsDate(cur_year, bd.month, bd.day)
       THEN Raise("ValueError", <<"day is out of range for month">>, book)
       ELSE IF Ordinal(this_year_bd) - Ordinal(Today) > 0
            THEN Return(message(Ordinal(this_year_bd) - Ordinal(Today)), book)
       ELSE IF ~IsDate(cur_year + 1, bd.month, bd.day)
            THEN Raise("ValueError", <<"day is out of range for month">>, book)
       ELSE Return(message(Ordinal(next_year_bd) - Ordinal(Today)), book)

days_to_birthday_body(book, args) ==
    IF Len(args) < 1 THEN IndexError(book)
    ELSE IF args[1] \in Keys(book)
         THEN IF GetRecord(book, args[1]).birthday # <<>>
              THEN Record_days_to_birthday(GetRecord(book, args[1]), book)
              ELSE Return(args[1] \o "'s birthday is not set", book)
    ELSE Return(args[1] \o " is not in your contacts", book)

days_to_birthday(book, args) == error_handler(days_to_birthday_body(book, args))

delete_phone_body(book, args) ==
    IF Len(args) < 2 THEN IndexError(book)
    ELSE IF ~Phone(args[2]).ok THEN Raise("ValueError", <<Phone(args[2]).error>>, book)
    ELSE IF args[1] \in Keys(book)
         THEN Return("Phone " \o args[2] \o " was deleted from " \o args[1] \o " ",
                     UpdateRecord(book, args[1],
                                  Record_remove_phone(GetRecord(book, args[1]), args[2])))
    ELSE Return("Contact " \o args[1] \o " does not exist", book)

delete_phone(book, args) == error_handler(delete_phone_body(book, args))

show_all_body(book, args) ==
    IF Len(book) > 0 THEN Return(show_all_records(book), book)
    ELSE Return("Your addressbook is empty", book)

show_all(book, args) == error_handler(show_all_body(book, args))

\* int(s) succeeds: an optional sign and decimal digits
IsIntLiteral(s) ==
    IF s # "" /\ Head(s) \in {"+", "-"} THEN isdigit(Tail(s)) ELSE isdigit(s)

IntOf(s) ==
    IF Head(s) = "-" THEN 0 - ToInt(Tail(s)) ELSE IF Head(s) = "+" THEN ToInt(Tail(s)) ELSE ToInt(s)

show_list_body(book, args) ==
    IF Len(book) = 0 THEN Return("Your address book is empty", book)
    ELSE IF Len(args) < 1 THEN IndexError(book)
    ELSE IF ~IsIntLiteral(args[1])
         THEN Raise("ValueError",
                    <<"invalid literal for int() with base 10: '" \o args[1] \o "'">>, book)
    ELSE Return(iterator(book, IntOf(args[1])), book)

show_list(book, args) == error_handler(show_list_body(book, args))

\* search is registered without the decorator
search(book, args) ==
    IF Len(args) < 1 THEN IndexError(book)
    ELSE Return(search_in_file(book, args[1]), book)

-----------------------------------------------------------------------------
(* difflib.SequenceMatcher(None, a, b).ratio(); no character is junk and   *)
(* the strings are shorter than the 200 characters of the autojunk rule    *)

\* the length of the common run of a from i and b from j, inside a[..ahi], b[..bhi]
RECURSIVE RunLen(_, _, _, _, _, _)
RunLen(a, i, ahi, b, j, bhi) ==
    IF i > ahi \/ j > bhi \/ At(a, i) # At(b, j) THEN 0
    ELSE 1 + RunLen(a, i + 1, ahi, b, j + 1, bhi)

SetMax(S) == CHOOSE x \in S : \A y \in S : y <= x

SetMin(S) == CHOOSE x \in S : \A y \in S : x <= y

\* find_longest_match(alo, ahi, blo, bhi) on inclusive ranges: the longest block,
\* of those the one starting first in a, of those the one starting first in b
find_longest_match(a, alo, ahi, b, blo, bhi) ==
    LET size == SetMax({0} \cup {RunLen(a, i, ahi, b, j, bhi) : i \in alo..ahi, j \in blo..bhi})
    IN IF size = 0 THEN [i |-> alo, j |-> blo, size |-> 0]
       ELSE LET besti == SetMin({i \in alo..ahi : \E j \in blo..bhi : RunLen(a, i, ahi, b, j, bhi) = size})
                bestj == SetMin({j \in blo..bhi : RunLen(a, besti, ahi, b, j, bhi) = size})
            IN [i |-> besti, j |-> bestj, size |-> size]

\* the sum of the sizes of get_matching_blocks(): the longest match, then the
\* matches to its left and to its right
RECURSIVE Matches(_, _, _, _, _, _)
Matches(a, alo, ahi, b, blo, bhi) ==
    IF alo > ahi \/ blo > bhi THEN 0
    ELSE LET m == find_longest_match(a, alo, ahi, b, blo, bhi)
         IN IF m.size = 0 THEN 0
            ELSE m.size + Matches(a, alo, m.i - 1, b, blo, m.j - 1)
                        + Matches(a, m.i + m.size, ahi, b, m.j + m.size, bhi)

\* ratio() = 2.0 * matches / (len(a) + len(b)), kept as the fraction num / den;
\* 1.0 when both strings are empty
ratio(a, b) ==
    IF Len(a) + Len(b) = 0 THEN [num |-> 1, den |-> 1]
    ELSE [num |-> 2 * Matches(a, 1, Len(a), b, 1, Len(b)), den |-> Len(a) + Len(b)]

\* x > y for two ratios
Greater(x, y) == x.num * y.den > y.num * x.den

-----------------------------------------------------------------------------
(* COMMANDS and command_parser *)

\* the dict COMMANDS in its order; a handler is named by its function
COMMANDS ==
    << [command |-> "show_list",        key_word |-> "show list"],
       [command |-> "delete_phone",     key_word |-> "delete phone"],
       [command |-> "days_to_birthday", key_word |-> "when birthday"],
       [command |-> "add_birthday",     key_word |-> "add birthday"],
       [command |-> "add_phone",        key_word |-> "add contact"],
       [command |-> "hello",            key_word |-> "hello"],
       [command |-> "show_all",         key_word |-> "show all"],
       [command |-> "change",           key_word |-> "change"],
       [command |-> "phone",            key_word |-> "show"],
       [command |-> "helper",           key_word |-> "help"],
       [command |-> "delete_contact",   key_word |-> "delete contact"],
       [command |-> "search",           key_word |-> "search"],
       [command |-> "add_email",        key_word |-> "add email"] >>

NoCommand == "None"

\* some keyword of COMMANDS is a prefix of the line
HasPrefixKeyword(user_input) ==
    \E n \in 1..Len(COMMANDS) : startswith(user_input, COMMANDS[n].key_word)

\* the entry at which the loop of command_parser returns: the first in the
\* order of COMMANDS whose key_word is a prefix of the line
MatchingEntry(user_input) ==
    SetMin({n \in 1..Len(COMMANDS) : startswith(user_input, COMMANDS[n].key_word)})

\* the loop of command_parser on a line no key_word is a prefix of, from entry n
\* of COMMANDS on with the ratio and the possible_command it holds there: the
\* possible_command at the end of the loop
RECURSIVE PossibleCommand(_, _, _, _)
PossibleCommand(user_input, n, best, possible_command) ==
    IF n > Len(COMMANDS) THEN possible_command
    ELSE LET a == ratio(user_input, COMMANDS[n].key_word)
         IN IF Greater(a, best)
            THEN PossibleCommand(user_input, n + 1, a, COMMANDS[n].key_word)
            ELSE PossibleCommand(user_input, n + 1, best, possible_command)

\* command_parser(user_input): the handler and the arguments it returns (NoCommand
\* and <<>> for None, None) and the line it prints ("" when it prints nothing).
\* The loop returns at the first key_word that is a prefix of the line, whatever
\* the ratios of the entries before it; with no such key_word it runs to its end.
command_parser(user_input) ==
    IF HasPrefixKeyword(user_input)
    THEN LET entry == COMMANDS[MatchingEntry(user_input)]
         IN [command |-> entry.command,
             data |-> split(strip(removeAll(user_input, entry.key_word)), " "),
             printed |-> ""]
    ELSE [command |-> NoCommand, data |-> <<>>,
          printed |-> "Maybe you meant '"
                        \o PossibleCommand(user_input, 1, [num |-> 0, den |-> 1], "")
                        \o "' ?"]

\* command(*data) for a handler of COMMANDS
Invoke(command, book, args, reply) ==
    CASE command = "show_list" -> show_list(book, args)
      [] command = "delete_phone" -> delete_phone(book, args)
      [] command = "days_to_birthday" -> days_to_birthday(book, args)
      [] command = "add_birthday" -> add_birthday(book, args)
      [] command = "add_phone" -> add_phone(book, args, reply)
      [] command = "hello" -> hello(book, args)
      [] command = "show_all" -> show_all(book, args)
      [] command = "change" -> change(book, args)
      [] command = "phone" -> phone(book, args)
      [] command = "helper" -> helper(book, args)
      [] command = "delete_contact" -> delete_contact(book, args)
      [] command = "search" -> search(book, args)
      [] command = "add_email" -> add_email(book, args)

-----------------------------------------------------------------------------
(* The snapshot AddressBook.txt and main() *)

FileMissing == [kind |-> "missing", items |-> <<>>]

\* a file that is not a pickle: empty, cut short or of other content
FileCorrupt == [kind |-> "corrupt", items |-> <<>>]

\* PickleRecord without the email, as if the field were left out of the state
PickleRecord_noEmail(rec) == <<rec.birthday, <<>>, rec.name, rec.phones>>

\* the state pickle keeps of a Record: its fields, in the order of __init__
PickleRecord(rec) == <<rec.birthday, rec.email, rec.name, rec.phones>>

UnpickleRecord(state) ==
    [name |-> state[3], phones |-> state[4], birthday |-> state[1], email |-> state[2]]

\* AddressBook.write_file: pickle.dump(self.data) replaces the file
write_file(book) ==
    [kind |-> "pickle",
     items |-> [i \in 1..Len(book) |-> <<book[i].key, PickleRecord(book[i].rec)>>]]

\* AddressBook.open_file on a pickle: self.data = pickle.load(file)
open_file(f) ==
    [i \in 1..Len(f.items) |-> [key |-> f.items[i][1], rec |-> UnpickleRecord(f.items[i][2])]]

end_words == <<".", "close", "bye", "exit">>

InSeq(x, seq) == \E i \in 1..Len(seq) : seq[i] = x

\* one turn of the loop of main() on the line read: next is where main() goes
\* ("confirm": the save question; "dup": the prompt of add_phone; "prompt": the
\* next line; "crashed": an exception left main), parsed whether command_parser
\* was called, command the handler it gave, printed the line command_parser
\* printed, book the store after the turn
main_iteration(book, user_input) ==
    IF InSeq(lower(user_input), end_words)
    THEN [next |-> "confirm", parsed |-> FALSE, command |-> NoCommand, data |-> <<>>,
          printed |-> "", book |-> book]
    ELSE LET p == command_parser(lower(user_input))
         IN IF p.command = NoCommand
            THEN [next |-> "prompt", parsed |-> TRUE, command |-> NoCommand, data |-> <<>>,
                  printed |-> p.printed, book |-> book]
            ELSE IF p.command = "add_phone" /\ add_phone_prompts(book, p.data)
            THEN [next |-> "dup", parsed |-> TRUE, command |-> p.command, data |-> p.data,
                  printed |-> "", book |-> book]
            ELSE LET o == Invoke(p.command, book, p.data, "")
                 IN [next |-> IF o.exc = "none" THEN "prompt" ELSE "crashed",
                     parsed |-> TRUE, command |-> p.command, data |-> p.data,
                     printed |-> "", book |-> o.book]

-----------------------------------------------------------------------------
(* The session: main() from its start to its end *)

\* the most phones a record of the model holds
MaxPhones == 2

WithinBounds(book) == \A i \in 1..Len(book) : Len(book[i].rec.phones) <= MaxPhones

NoCall == [fn |-> "none"]

\* the store an earlier session saved: ann with a phone, a birthday and an email
SavedBook ==
    add_email(add_birthday(add_phone(<<>>, <<"ann", "380000000001">>, "").book,
                           <<"ann", "01-02-2000">>).book,
              <<"ann", "ann@mail.com">>).book

\* the files main() may find: none, one that is no pickle, the snapshot of an
\* empty store, the snapshot of SavedBook
StartFiles == {FileMissing, FileCorrupt, write_file(<<>>), write_file(SavedBook)}

SessionLines ==
    { "add contact ann 380000000001", "add contact ann 380000000002",
      "add contact ann 12345", "add contact",
      "change ann 380000000001 380000000002",
      "delete contact ann", "delete phone ann 380000000001",
      "add birthday ann 01-02-2000", "add birthday ann 2000-02-01",
      "add email ann ann@mail.com",
      "when birthday ann", "show zed", "show list 1", "search 0001",
      "show all", "hello", ".", "exit", "BYE", "", "zzz" }

\* answers to the prompt of add_phone
DupAnswers == {"1", "2", "3", "4"}

\* answers to "Do you want to save changes? 'y/n'"
SaveAnswers == {"y", "n", "yes"}

Init ==
    /\ pc = "start"
    /\ data = <<>>
    /\ file \in StartFiles
    /\ pending = <<>>
    /\ save_file = ""
    /\ call = NoCall

\* main() up to its loop: open_file, and write_file and open_file again when the
\* file is not found; any other exception of pickle.load leaves main
Start ==
    /\ pc = "start"
    /\ IF file.kind = "missing"
       THEN /\ file' = write_file(data)
            /\ data' = open_file(write_file(data))
            /\ pc' = "prompt"
       ELSE IF file.kind = "pickle"
       THEN /\ data' = open_file(file)
            /\ pc' = "prompt"
            /\ UNCHANGED file
       ELSE /\ pc' = "crashed"
            /\ UNCHANGED <<data, file>>
    /\ UNCHANGED <<pending, save_file, call>>

\* input(">>>") and the turn of the loop on the line
ReadLine(line) ==
    /\ pc = "prompt"
    /\ LET turn == main_iteration(data, line)
       IN /\ WithinBounds(turn.book)
          /\ pc' = turn.next
          /\ data' = turn.book
          /\ pending' = IF turn.next = "dup" THEN turn.data ELSE <<>>
    /\ save_file' = ""
    /\ UNCHANGED <<file, call>>

\* the input() of add_phone: "1", "2" or "3" lets add_phone go on to its end,
\* anything else asks again
AnswerDup(user_input) ==
    /\ pc = "dup"
    /\ IF user_input \in {"1", "2", "3"}
       THEN LET o == add_phone(data, pending, user_input)
            IN /\ WithinBounds(o.book)
               /\ data' = o.book
               /\ pc' = IF o.exc = "none" THEN "prompt" ELSE "crashed"
               /\ pending' = <<>>
       ELSE UNCHANGED <<data, pc, pending>>
    /\ UNCHANGED <<file, save_file, call>>

\* Confirm with the file written on every answer but "n"
Confirm_savesOnAnyAnswer(reply) ==
    /\ pc = "confirm"
    /\ save_file' = reply
    /\ IF reply = "n"
       THEN pc' = "done" /\ UNCHANGED file
       ELSE file' = write_file(data) /\ pc' = (IF reply = "y" THEN "done" ELSE "prompt")
    /\ UNCHANGED <<data, pending, call>>

\* the answer to "Do you want to save changes?": "y" writes the file and ends,
\* "n" ends, anything else goes on with the loop of main()
Confirm(reply) ==
    /\ pc = "confirm"
    /\ save_file' = reply
    /\ IF reply = "y"
       THEN file' = write_file(data) /\ pc' = "done"
       ELSE IF reply = "n"
       THEN pc' = "done" /\ UNCHANGED file
       ELSE pc' = "prompt" /\ UNCHANGED file
    /\ UNCHANGED <<data, pending, call>>

Next ==
    \/ Start
    \/ \E line \in SessionLines : ReadLine(line)
    \/ \E user_input \in DupAnswers : AnswerDup(user_input)
    \/ \E reply \in SaveAnswers : Confirm(reply)

Spec == Init /\ [][Next]_vars

-----------------------------------------------------------------------------
(* Calls: one function of the program applied to one input, on a store the *)
(* handlers built: Init draws the store, an action makes the one call of   *)
(* the behaviour and keeps its input and its outcome in call.              *)

BookAnn == add_phone(<<>>, <<"ann", "380000000001">>, "").book

\* ann with two phones
BookTwoPhones == add_phone(BookAnn, <<"ann", "380000000002">>, "3").book

\* ann with two phones, a birthday on the 29th of February and an email, then ann(1)
BookRenamed ==
    add_email(add_birthday(add_phone(BookTwoPhones, <<"ann", "380000000002">>, "2").book,
                           <<"ann", "29-02-2000">>).book,
              <<"ann", "ann@mail.com">>).book

\* ann and bob; bob has a birthday and lost his only phone
BookBob ==
    delete_phone(add_birthday(add_phone(BookAnn, <<"bob", "380000000002">>, "").book,
                              <<"bob", "01-02-2000">>).book,
                 <<"bob", "380000000002">>).book

SampleBooks == {<<>>, BookAnn, BookTwoPhones, BookRenamed, BookBob}

PhoneHeads == {"380", "381", "038", "38%", "+38", "abc", "3 8"}

PhoneTails ==
    { "", "0", "00000001", "000000001", "0000000001", "0000a0001", "00000000%",
      "%%%%%%%%%", "00000000 ", "-00000001", "000000000000", "00000000A",
      "123456789", "999999999", "00000000.", "0000000%0" }

PhoneInputs == {h \o t : h \in PhoneHeads, t \in PhoneTails}

Handlers == {COMMANDS[n].command : n \in 1..Len(COMMANDS)}

ArgLists ==
    { <<>>, <<"">>, <<"ann">>, <<"zed">>, <<"ANN">>, <<"bob">>, <<"1">>, <<"-1">>, <<"x">>,
      <<"380">>, <<"0001">>, <<"0002">>, <<"(1)">>, <<"n">>,
      <<"ann", "380000000001">>, <<"ann", "380000000002">>, <<"zed", "380000000001">>,
      <<"ann", "123">>, <<"ann", "01-02-2000">>, <<"ann", "31-12-2999">>,
      <<"ann", "ann@mail.com">>, <<"ann", "mail">>,
      <<"ann", "380000000001", "380000000002">>, <<"ann", "380000000002", "380000000001">>,
      <<"ann", "380000000001", "x">>, <<"zed", "380000000001", "380000000002">>,
      <<"ann", "380000000001", "380000000002", "more">> }

ParserLines ==
    { "add contact ann 380000000001", "add contactann", "add contact add contact",
      "add contact  ann  380000000001 ", "add birthday ann 01-02-2000", "add email ann a@b.cc",
      "show all", "show list 2", "show ann", "show showman", "show", "showall",
      "search search", "search ann", "search research", "change ann change",
      "delete contact ann", "delete phone ann 380000000001", "when birthday ann",
      "hello", "hello hello", "help", "helper",
      "", " ", "zzz", "q", "12345", "ad contct", "good bye", "add", "ad", "sho", "shw",
      "delet", "hel", "chng", "x show", " show", "e", "s", "phone ann", "exit now",
      "wen birthday", "serch", "delete", "contact" }

MainLines == ParserLines \cup {".", "close", "bye", "exit", "good bye", "EXIT", "Bye", "SHOW ALL"}

InitCalls ==
    /\ pc = "call"
    /\ data \in SampleBooks
    /\ file = FileMissing
    /\ pending = <<>>
    /\ save_file = ""
    /\ call = NoCall

\* the phones Record.change is called with
ChangePhones == {"380000000001", "380000000002", "380000000003"}

\* Phone(value)
CallPhone(value) ==
    /\ call = NoCall
    /\ call' = [fn |-> "Phone", input |-> value, out |-> Phone(value)]
    /\ UNCHANGED <<pc, data, file, pending, save_file>>

\* command(*args) for a handler of COMMANDS, reply answering add_phone's prompt
CallHandler(command, args, reply) ==
    /\ call = NoCall
    /\ call' = [fn |-> "handler", command |-> command, input |-> args,
                out |-> Invoke(command, data, args, reply)]
    /\ UNCHANGED <<pc, data, file, pending, save_file>>

\* command_parser(user_input)
CallParser(user_input) ==
    /\ call = NoCall
    /\ call' = [fn |-> "command_parser", input |-> user_input, out |-> command_parser(user_input)]
    /\ UNCHANGED <<pc, data, file, pending, save_file>>

\* one turn of the loop of main() on a line
CallMain(line) ==
    /\ call = NoCall
    /\ call' = [fn |-> "main", input |-> line, out |-> main_iteration(data, line)]
    /\ UNCHANGED <<pc, data, file, pending, save_file>>

\* record.change(old_phone, new_phone) on the record of the store under key
CallChange(key, old_phone, new_phone) ==
    /\ call = NoCall
    /\ key \in Keys(data)
    /\ LET rec == GetRecord(data, key) IN
           call' = [fn |-> "Record.change", rec |-> rec,
                    old_phone |-> old_phone, new_phone |-> new_phone,
                    out |-> Record_change_return(rec, old_phone, new_phone),
                    after |-> Record_change(rec, old_phone, new_phone)]
    /\ UNCHANGED <<pc, data, file, pending, save_file>>

NextCalls ==
    \/ \E value \in PhoneInputs : CallPhone(value)
    \/ \E command \in Handlers : \E args \in ArgLists : \E reply \in {"1", "2", "3"} :
            CallHandler(command, args, reply)
    \/ \E user_input \in ParserLines : CallParser(user_input)
    \/ \E line \in MainLines : CallMain(line)
    \/ \E key \in {"ann", "ann(1)", "bob"} : \E old_phone, new_phone \in ChangePhones :
            CallChange(key, old_phone, new_phone)

SpecCalls == InitCalls /\ [][NextCalls]_vars

-----------------------------------------------------------------------------
(* The statements *)

\* C1: in every state of a session every key of the store maps to a Record whose
\* name is the key, and no two items of the store have the same key.
C1_KeysAreNames ==
    /\ \A i \in 1..Len(data) : data[i].rec.name = data[i].key
    /\ \A i, j \in 1..Len(data) : data[i].key = data[j].key => i = j

\* answer "2" made ann(1) and answer "1" then rewrote ann, which now comes last
C1_Witness ==
    /\ pc = "prompt"
    /\ Len(data) = 2
    /\ data[1].key = "ann(1)" /\ data[2].key = "ann"
    /\ Len(data[1].rec.phones) = MaxPhones

\* C2: Phone(s) succeeds exactly when s has 12 characters, all of them digits,
\* and starts with "380"; when it fails it raised a validation error and holds
\* no value.
C2_PhoneValidity ==
    call.fn = "Phone" =>
        /\ call.out.ok <=> (Len(call.input) = 12 /\ isdigit(call.input)
                                /\ startswith(call.input, "380"))
        /\ ~call.out.ok => (call.out.error # "" /\ call.out.value = "")

\* C3: every handler of the command table, called with any argument list on any
\* store, returns a string and raises nothing, and no turn of main() ends with
\* an exception leaving the loop.
C3_HandlersRaiseNothing ==
    /\ call.fn = "handler" => (call.out.exc = "none" /\ call.out.type = "str")
    /\ call.fn = "main" => call.out.next # "crashed"

ReservedKeywords == {".", "close", "bye", "good bye", "exit"}

\* C4: each of ".", "close", "bye", "good bye", "exit" read at the prompt starts
\* the save question without command_parser being called or a handler run.
C4_KeywordsStartExit ==
    (call.fn = "main" /\ call.input \in ReservedKeywords) =>
        /\ call.out.next = "confirm"
        /\ ~call.out.parsed
        /\ call.out.command = NoCommand
        /\ call.out.book = data

C6_StartupRecovers ==
    [][(pc = "start" /\ file.kind # "pickle")
          => (pc' = "prompt" /\ data' = <<>> /\ file' = write_file(<<>>))]_vars

\* the first entry of COMMANDS whose key_word is a prefix of the line
FirstPrefixEntry(line) ==
    CHOOSE n \in 1..Len(COMMANDS) :
        /\ startswith(line, COMMANDS[n].key_word)
        /\ \A m \in 1..(n - 1) : ~startswith(line, COMMANDS[m].key_word)

\* C7: on a line that some key_word is a prefix of, command_parser returns the
\* handler of the first such key_word in the order of COMMANDS and the line
\* without that prefix, stripped and split on single spaces.
C7_PrefixOnlyStripped ==
    (call.fn = "command_parser" /\ HasPrefixKeyword(call.input)) =>
        LET entry == COMMANDS[FirstPrefixEntry(call.input)]
        IN /\ call.out.command = entry.command
           /\ call.out.data = split(strip(DropFirst(call.input, Len(entry.key_word))), " ")

RatioOf(line, n) == ratio(line, COMMANDS[n].key_word)

\* the entry of the highest ratio to the line, the first of them in COMMANDS
BestEntry(line) ==
    CHOOSE n \in 1..Len(COMMANDS) :
        /\ \A m \in 1..Len(COMMANDS) : ~Greater(RatioOf(line, m), RatioOf(line, n))
        /\ \A m \in 1..(n - 1) : Greater(RatioOf(line, n), RatioOf(line, m))

\* C8: on a line that no key_word is a prefix of, command_parser returns no
\* handler and suggests the key_word of the highest ratio to the line, the first
\* in COMMANDS among equals; the turn of main() runs nothing and leaves the store.
C8_SuggestsBestKeyword ==
    /\ (call.fn = "command_parser" /\ ~HasPrefixKeyword(call.input)) =>
          /\ call.out.command = NoCommand
          /\ call.out.printed
                = "Maybe you meant '" \o COMMANDS[BestEntry(call.input)].key_word \o "' ?"
    /\ (call.fn = "main" /\ call.out.parsed /\ ~HasPrefixKeyword(lower(call.input))) =>
          /\ call.out.command = NoCommand
          /\ call.out.next = "prompt"
          /\ call.out.book = data

\* the text is in the name or in a phone of the record, whatever the case
RecordMatches(rec, text) ==
    \/ Contains(lower(rec.name), lower(text))
    \/ \E i \in 1..Len(rec.phones) : Contains(lower(rec.phones[i]), lower(text))

\* one line for every record that matches, in the order of the store
RECURSIVE OneLinePerMatch(_, _)
OneLinePerMatch(book, text) ==
    IF book = <<>> THEN ""
    ELSE (IF RecordMatches(Head(book).rec, text) THEN SearchLine(Head(book).rec) ELSE "")
            \o OneLinePerMatch(Tail(book), text)

\* C9: search returns one line for each record whose name or one of whose phones
\* holds the text, whatever the case, none for the other records, and "" when no
\* record matches.
C9_OneLinePerMatch ==
    (call.fn = "handler" /\ call.command = "search" /\ Len(call.input) >= 1) =>
        /\ call.out.exc = "none"
        /\ call.out.val = OneLinePerMatch(data, call.input[1])

\* C10 as stated: at the save question "y" writes the store to the file and ends
\* the session, "n" ends it with the file as it was, and any other answer leaves
\* store and file and asks the save question again.
C10_ReasksConfirmation ==
    [][pc = "confirm" =>
          IF save_file' = "y" THEN pc' = "done" /\ file' = write_file(data) /\ data' = data
          ELSE IF save_file' = "n" THEN pc' = "done" /\ file' = file /\ data' = data
          ELSE pc' = "confirm" /\ file' = file /\ data' = data]_vars

\* C10 amended: any other answer leaves store and file, runs no command and goes
\* back to the prompt of main(), where the session goes on.
C10_InvalidAnswerBackToPrompt ==
    [][pc = "confirm" =>
          IF save_file' = "y" THEN pc' = "done" /\ file' = write_file(data) /\ data' = data
          ELSE IF save_file' = "n" THEN pc' = "done" /\ file' = file /\ data' = data
          ELSE pc' = "prompt" /\ file' = file /\ data' = data /\ pending' = <<>>]_vars

\* back at the prompt after an answer that is neither "y" nor "n", with a store
\* that is not saved
C10_Witness ==
    /\ pc = "prompt"
    /\ save_file \notin {"", "y", "n"}
    /\ data # <<>>
    /\ file = write_file(<<>>)


\* the number of positions of seq that hold x
Occurrences(seq, x) == Cardinality({i \in 1..Len(seq) : seq[i] = x})

\* C11: Record.change(old, new) looks at the first phone only. When the first
\* phone equals old, that occurrence of old gives way to new, the list keeps its
\* length and a confirmation message is returned; in every other case (no phones
\* at all, old at a later position, old absent) the phones are unchanged and a
\* "not found" message is returned.
C11_ChangeFirstPhoneOnly ==
    call.fn = "Record.change" =>
        LET before == call.rec.phones
            after == call.after.phones
            old == call.old_phone
            new == call.new_phone
        IN  IF before # <<>> /\ before[1] = old
            THEN /\ Len(after) = Len(before)
                 /\ \A p \in ChangePhones :
                        Occurrences(after, p) =
                            Occurrences(before, p) - (IF p = old THEN 1 ELSE 0)
                                                   + (IF p = new THEN 1 ELSE 0)
                 /\ after[Len(after)] = new
                 /\ call.out.type = "str"
                 /\ call.out.val = "Phone " \o old \o " was successfully changed to " \o new
            ELSE /\ after = before
                 /\ call.out.type = "str"
                 /\ call.out.val = "Phone number '" \o old \o "' was not found in the record"

=============================================================================
